---- MODULE Spec2Model ----
(***************************************************************************)
(* Model of crates/http/src/calendar_share.rs:                             *)
(* CalendarShareHandler::handle_calendar_share_ical.                       *)
(*                                                                         *)
(* The function body holds two pieces of code.  Lines 31-57 are what the   *)
(* compiler sees: hash the secret, issue one directory query, drop its     *)
(* result, return Resource::NotFound.  Lines 59-134 are a block comment    *)
(* holding "what the full implementation would look like": the principal   *)
(* scan, the resource listing, the per-resource export.  The variable      *)
(* impl says which of the two bodies a run executes, "compiled" or         *)
(* "commented"; every statement about the program as built is a statement  *)
(* about impl = "compiled".                                                *)
(*                                                                         *)
(* Text is a sequence of one-character strings, so that strip_prefix,      *)
(* split_once, split and to_string are computed character by character.    *)
(* An iCalendar document is a sequence of CRLF-terminated lines.           *)
(***************************************************************************)
EXTENDS Integers, Sequences, FiniteSets, TLC

VARIABLES
    impl,           \* which body runs: "compiled" (31-57) or "commented" (59-134)
    principals,     \* directory content: sequence of [id, data]
    secret,         \* the bearer secret of the request
    resources,      \* the account's DAV resource listing
    store,          \* document id -> archived record ("missing", "corrupt", "event")
    pc,             \* position of the handler
    hashed_secret,  \* line 33
    calendar_id,    \* line 36, Option<String>
    account_id,     \* line 37, Option<u32>
    pi,             \* outer loop position (line 62)
    di,             \* inner loop position (line 63)
    brk,            \* the inner loop was left by the break of line 73
    ri,             \* export loop position (line 105)
    ical_content,   \* line 103
    response,       \* the handler's result
    dirOutcome,     \* what the directory query of lines 42-45 returned
    failure,        \* which collaborator call failed, if any
    queries,        \* number of directory queries issued
    listings,       \* number of resource listings issued
    reads,          \* document ids read from the store, in order
    examined,       \* (principal, entry) positions compared at line 68 or before
    cal, extra, hash, token, decoded, parsed   \* codec run (SpecCodec)

vars == <<impl, principals, secret, resources, store, pc, hashed_secret,
          calendar_id, account_id, pi, di, brk, ri, ical_content, response,
          dirOutcome, failure, queries, listings, reads, examined,
          cal, extra, hash, token, decoded, parsed>>

(***************************************************************************)
(* Bounds of the model.                                                    *)
(***************************************************************************)
MaxPrincipals == 2
MaxEntries == 3
MaxResources == 5
MaxFieldLen == 2
MaxExtra == 3

(***************************************************************************)
(* Option and text helpers.                                                *)
(***************************************************************************)
None == <<>>
Some(x) == <<x>>
Unwrap(o) == o[1]

Positions(s, c) == {i \in 1..Len(s) : s[i] = c}
Min(S) == CHOOSE m \in S : \A n \in S : m <= n
Max(S) == CHOOSE m \in S : \A n \in S : m >= n

CalPrefix == <<"$", "c", "a", "l", "$">>

\* str::strip_prefix
strip_prefix(s, p) ==
    IF Len(s) >= Len(p) /\ SubSeq(s, 1, Len(p)) = p
    THEN Some(SubSeq(s, Len(p) + 1, Len(s)))
    ELSE None

\* a split_once that cuts at the last delimiter instead of the first
rsplit_once(s, c) ==
    IF Positions(s, c) = {} THEN None
    ELSE LET i == Max(Positions(s, c))
         IN  Some(<<SubSeq(s, 1, i - 1), SubSeq(s, i + 1, Len(s))>>)

\* str::split_once: cut at the first delimiter
split_once(s, c) ==
    IF Positions(s, c) = {} THEN None
    ELSE LET i == Min(Positions(s, c))
         IN  Some(<<SubSeq(s, 1, i - 1), SubSeq(s, i + 1, Len(s))>>)

\* str::split(c).collect(): n delimiters give n + 1 fields, "" gives [""]
RECURSIVE split(_, _)
split(s, c) ==
    IF Positions(s, c) = {} THEN <<s>>
    ELSE LET i == Min(Positions(s, c))
         IN  <<SubSeq(s, 1, i - 1)>> \o split(SubSeq(s, i + 1, Len(s)), c)

\* a decode that cuts the remainder at the last "$"
decode_last(link_secret) ==
    LET stripped == strip_prefix(link_secret, CalPrefix)
    IN  IF stripped = None THEN None ELSE rsplit_once(Unwrap(stripped), "$")

\* lines 65-66: link_secret.strip_prefix("$cal$").and_then(|s| s.split_once('$'))
decode(link_secret) ==
    LET stripped == strip_prefix(link_secret, CalPrefix)
    IN  IF stripped = None THEN None ELSE split_once(Unwrap(stripped), "$")

\* a parseMeta that accepts two fields
parseMeta_two(meta) ==
    LET parts == split(meta, "|")
    IN  IF Len(parts) >= 2 THEN Some(parts[1]) ELSE None

\* lines 69-71: parts = meta.split('|'); parts.len() >= 3 => parts[0]
parseMeta(meta) ==
    LET parts == split(meta, "|")
    IN  IF Len(parts) >= 3 THEN Some(parts[1]) ELSE None

Digit(d) == <<"0", "1", "2", "3", "4", "5", "6", "7", "8", "9">>[d + 1]

\* u32::to_string: decimal digits, no leading zero
RECURSIVE to_string(_)
to_string(n) ==
    IF n < 10 THEN <<Digit(n)>>
    ELSE to_string(n \div 10) \o <<Digit(n % 10)>>

(***************************************************************************)
(* Collaborators: the secret hash, the directory, the resource listing,    *)
(* the store and the event renderer.                                       *)
(***************************************************************************)
Secrets == <<"s1", "s2">>

\* utils::config::utils::hash_secret, called at line 33: a deterministic
\* digest; the digest of "s2" holds a "$", as crypt-style digests do
hash_secret(s) == IF s = "s1" THEN <<"x">> ELSE <<"$", "y">>

\* PrincipalData values a principal may hold
Link(text) == [kind |-> "CalendarShareLink", secret |-> text]
OtherData == [kind |-> "Other", secret |-> <<>>]
\* $cal$12|r|e$x : well formed, calendar "12", digest of "s1"
LinkCal12 == Link(CalPrefix \o <<"1", "2", "|", "r", "|", "e", "$", "x">>)
\* $cal$1|r|e$$y : well formed, calendar "1", digest of "s2"
LinkS2 == Link(CalPrefix \o <<"1", "|", "r", "|", "e", "$", "$", "y">>)
\* 12|r|e$x : no $cal$ prefix, digest of "s1"
LinkNoPrefix == Link(<<"1", "2", "|", "r", "|", "e", "$", "x">>)
\* $cal$12|r|ex : no "$" after the prefix
LinkNoDollar == Link(CalPrefix \o <<"1", "2", "|", "r", "|", "e", "x">>)
\* $cal$12|r$x : two meta fields only, digest of "s1"
LinkShortMeta == Link(CalPrefix \o <<"1", "2", "|", "r", "$", "x">>)

Entries ==
    <<OtherData, LinkCal12, LinkS2, LinkNoPrefix, LinkNoDollar, LinkShortMeta>>

\* principal.id of the principal the listing yields at position i
PrincipalIdAt(i) == <<7, 3, 9, 5, 8, 2>>[i]

\* resource.document_id() of the resource listed at position i
DocumentIdAt(i) == 40 + i

RECURSIVE Sum(_)
Sum(l) == IF l = <<>> THEN 0 ELSE Head(l) + Sum(Tail(l))

\* the principals of shape lens whose data entries are, in order, flat
MakePrincipals(lens, flat) ==
    [i \in 1..Len(lens) |->
        [id |-> PrincipalIdAt(i),
         data |-> SubSeq(flat, Sum(SubSeq(lens, 1, i - 1)) + 1,
                         Sum(SubSeq(lens, 1, i)))]]

\* CalendarEvent::to_ical_string of the event archived under document id doc
to_ical_string(doc) == <<"BEGIN:VEVENT", "UID:" \o ToString(doc), "END:VEVENT">>

\* line 103
Header == <<"BEGIN:VCALENDAR", "VERSION:2.0", "PRODID:-//Stalwart//Calendar Share//EN">>
\* line 125
Footer == <<"END:VCALENDAR">>

NoResponse == [status |-> "None", kind |-> "", details |-> "", headers |-> <<>>, body |-> <<>>]

\* a NotFound whose detail tells a wrong secret from an absent link
NotFoundError_leaky ==
    [status |-> "Err", kind |-> "Resource.NotFound",
     details |-> IF \E p \in 1..Len(principals) : \E d \in 1..Len(principals[p].data) :
                       principals[p].data[d].kind = "CalendarShareLink"
                 THEN "Calendar share link secret mismatch"
                 ELSE "Calendar share link not found",
     headers |-> <<>>, body |-> <<>>]

\* lines 55-57 and 84-94
NotFoundError ==
    [status |-> "Err", kind |-> "Resource.NotFound",
     details |-> "Calendar share link not found", headers |-> <<>>, body |-> <<>>]

\* the collaborator's error with .caused_by(trc::location!()) added (100, 115)
StorageError(where) ==
    [status |-> "Err", kind |-> "StorageError", details |-> where,
     headers |-> <<>>, body |-> <<>>]

\* lines 127-133
OkResponse(content) ==
    [status |-> "Ok", kind |-> "200 OK", details |-> "",
     headers |-> <<<<"Content-Type", "text/calendar; charset=utf-8">>,
                   <<"Content-Disposition", "attachment; filename=\"calendar.ics\"">>>>,
     body |-> content]

\* what a listed resource can be: a calendar, an event of calendar 12 whose
\* record is stored, missing or undecodable, a stored event of calendar 1
Calendar12 == [is_container |-> TRUE, collection_id |-> 12, record |-> "missing"]
LeafEvent12 == [is_container |-> FALSE, collection_id |-> 12, record |-> "event"]
LeafMissing12 == [is_container |-> FALSE, collection_id |-> 12, record |-> "missing"]
LeafCorrupt12 == [is_container |-> FALSE, collection_id |-> 12, record |-> "corrupt"]
LeafEvent1 == [is_container |-> FALSE, collection_id |-> 1, record |-> "event"]

ResourceKinds == <<Calendar12, LeafEvent12, LeafMissing12, LeafCorrupt12, LeafEvent1>>

MakeResources(listing) ==
    [i \in 1..Len(listing) |->
        [is_container |-> listing[i].is_container,
         collection_id |-> listing[i].collection_id,
         document_id |-> DocumentIdAt(i)]]

MakeStore(listing) ==
    [doc \in {DocumentIdAt(i) : i \in 1..Len(listing)} |->
        listing[CHOOSE i \in 1..Len(listing) : DocumentIdAt(i) = doc].record]

(***************************************************************************)
(* The handler.                                                            *)
(***************************************************************************)
handlerVars == <<impl, principals, secret, resources, store, pc, hashed_secret,
                 calendar_id, account_id, pi, di, brk, ri, ical_content, response,
                 dirOutcome, failure, queries, listings, reads, examined>>
codecVars == <<cal, extra, hash, token, decoded, parsed>>
inputVars == <<impl, principals, secret, resources, store>>

\* lines 64-75 for one data entry: the calendar id it yields, if any
EntryMatch(data, hashed) ==
    IF data.kind # "CalendarShareLink" THEN None
    ELSE LET d == decode(data.secret)
         IN  IF d = None THEN None
             ELSE LET meta == Unwrap(d)[1]
                      stored_hash == Unwrap(d)[2]
                  IN  IF stored_hash = hashed THEN parseMeta(meta) ELSE None

\* a filter that forgets the calendar
Qualifies_any_leaf(resource, calendar) == ~resource.is_container

\* line 106: !resource.is_container() && collection_id().to_string() == calendar_id
Qualifies(resource, calendar) ==
    ~resource.is_container /\ to_string(resource.collection_id) = calendar

\* lines 31-45: called with a secret; hash it, clear the two options, query
\* the directory by email "*" and await the result.  The directory holds, at
\* that moment, a number in counts of principals, each with a number in sizes
\* of data entries, at most total together, taken from entries.
handle_calendar_share_ical(counts, sizes, total, entries) ==
    /\ pc = "start"
    /\ \E s \in 1..Len(Secrets) : secret' = Secrets[s]
    /\ \E n \in counts : \E lens \in [1..n -> sizes] :
          /\ Sum(lens) <= total
          /\ \E flat \in [1..Sum(lens) -> 1..Len(entries)] :
                principals' = MakePrincipals(lens, [i \in 1..Sum(lens) |-> entries[flat[i]]])
    /\ hashed_secret' = hash_secret(secret')
    /\ calendar_id' = None
    /\ account_id' = None
    /\ \E outcome \in {"ok", "err"} :
          /\ dirOutcome' = outcome
          /\ failure' = IF outcome = "err" THEN "directory" ELSE failure
    /\ queries' = queries + 1
    /\ pc' = "queried"
    /\ UNCHANGED <<impl, resources, store, pi, di, brk, ri, ical_content, response,
                   listings, reads, examined, codecVars>>

\* a return that looks at the query result and propagates its error
ReturnNotFound_propagate ==
    /\ pc = "queried"
    /\ impl = "compiled"
    /\ response' = IF dirOutcome = "err" THEN StorageError("query") ELSE NotFoundError
    /\ pc' = "done"
    /\ UNCHANGED <<inputVars, hashed_secret, calendar_id, account_id, pi, di, brk,
                   ri, ical_content, dirOutcome, failure, queries, listings, reads,
                   examined, codecVars>>

\* lines 47-57: the query result is not looked at; return NotFound
ReturnNotFound ==
    /\ pc = "queried"
    /\ impl = "compiled"
    /\ response' = NotFoundError
    /\ pc' = "done"
    /\ UNCHANGED <<inputVars, hashed_secret, calendar_id, account_id, pi, di, brk,
                   ri, ical_content, dirOutcome, failure, queries, listings, reads,
                   examined, codecVars>>

\* line 62: for principal in all_principals.  The block names no source for
\* all_principals; it is taken to be the listing the query returned, so the
\* block runs only from a query that succeeded.
BeginScan ==
    /\ pc = "queried"
    /\ impl = "commented"
    /\ dirOutcome = "ok"
    /\ pi' = 1
    /\ di' = 1
    /\ brk' = FALSE
    /\ pc' = "scan"
    /\ UNCHANGED <<inputVars, hashed_secret, calendar_id, account_id, ri,
                   ical_content, response, dirOutcome, failure, queries, listings,
                   reads, examined, codecVars>>

\* lines 63-78: one pass of the inner loop
ScanEntry ==
    /\ pc = "scan"
    /\ pi <= Len(principals)
    /\ ~brk
    /\ di <= Len(principals[pi].data)
    /\ LET m == EntryMatch(principals[pi].data[di], hashed_secret)
       IN  IF m # None
           THEN /\ calendar_id' = m
                /\ account_id' = Some(principals[pi].id)
                /\ brk' = TRUE
                /\ di' = di
           ELSE /\ di' = di + 1
                /\ UNCHANGED <<calendar_id, account_id, brk>>
    /\ examined' = Append(examined, <<pi, di>>)
    /\ UNCHANGED <<inputVars, pc, hashed_secret, pi, ri, ical_content, response,
                   dirOutcome, failure, queries, listings, reads, codecVars>>

\* an end of the inner loop without the check of lines 79-81
EndPrincipal_nobreak ==
    /\ pc = "scan"
    /\ pi <= Len(principals)
    /\ (brk \/ di > Len(principals[pi].data))
    /\ pc' = pc /\ pi' = pi + 1 /\ di' = 1 /\ brk' = FALSE
    /\ UNCHANGED <<inputVars, hashed_secret, calendar_id, account_id, ri,
                   ical_content, response, dirOutcome, failure, queries, listings,
                   reads, examined, codecVars>>

\* lines 78-82: the inner loop is over; leave the outer loop on a match
EndPrincipal ==
    /\ pc = "scan"
    /\ pi <= Len(principals)
    /\ (brk \/ di > Len(principals[pi].data))
    /\ IF calendar_id # None
       THEN pc' = "resolve" /\ UNCHANGED <<pi, di, brk>>
       ELSE pc' = pc /\ pi' = pi + 1 /\ di' = 1 /\ brk' = FALSE
    /\ UNCHANGED <<inputVars, hashed_secret, calendar_id, account_id, ri,
                   ical_content, response, dirOutcome, failure, queries, listings,
                   reads, examined, codecVars>>

\* lines 84-94: both options must be set, else NotFound
Resolve ==
    /\ \/ pc = "resolve"
       \/ pc = "scan" /\ pi > Len(principals)
    /\ IF calendar_id = None \/ account_id = None
       THEN response' = NotFoundError /\ pc' = "done"
       ELSE response' = response /\ pc' = "list"
    /\ UNCHANGED <<inputVars, hashed_secret, calendar_id, account_id, pi, di, brk,
                   ri, ical_content, dirOutcome, failure, queries, listings, reads,
                   examined, codecVars>>

\* lines 97-103: list the account's calendar resources, start the document.
\* The account holds, at that moment, a listing of one of the lengths, of
\* resources (with their stored records) among kinds.
FetchDavResources(lengths, kinds) ==
    /\ pc = "list"
    /\ listings' = listings + 1
    /\ \E outcome \in {"ok", "err"} :
          IF outcome = "err"
          THEN /\ response' = StorageError("fetch_dav_resources")
               /\ failure' = "listing"
               /\ pc' = "done"
               /\ UNCHANGED <<ri, ical_content, resources, store>>
          ELSE /\ \E k \in lengths : \E pick \in [1..k -> 1..Len(kinds)] :
                     LET listing == [i \in 1..k |-> kinds[pick[i]]]
                     IN  /\ resources' = MakeResources(listing)
                         /\ store' = MakeStore(listing)
               /\ ical_content' = Header
               /\ ri' = 1
               /\ pc' = "export"
               /\ UNCHANGED <<response, failure>>
    /\ UNCHANGED <<impl, principals, secret, hashed_secret, calendar_id, account_id,
                   pi, di, brk, dirOutcome, queries, reads, examined, codecVars>>

\* an export pass that takes a missing or undecodable record for an error
ExportResource_strict ==
    /\ pc = "export"
    /\ ri <= Len(resources)
    /\ LET resource == resources[ri]
           doc == resource.document_id
       IN  IF Qualifies(resource, Unwrap(calendar_id))
           THEN /\ reads' = Append(reads, doc)
                /\ \E outcome \in {"ok", "err"} :
                      IF outcome = "err" \/ store[doc] # "event"
                      THEN /\ response' = StorageError("get_value")
                           /\ failure' = IF outcome = "err" THEN "fetch" ELSE failure
                           /\ pc' = "done"
                           /\ UNCHANGED <<ri, ical_content>>
                      ELSE /\ ical_content' = ical_content \o to_ical_string(doc)
                           /\ ri' = ri + 1
                           /\ UNCHANGED <<response, failure, pc>>
           ELSE /\ ri' = ri + 1
                /\ UNCHANGED <<reads, ical_content, response, failure, pc>>
    /\ UNCHANGED <<inputVars, hashed_secret, calendar_id, account_id, pi, di, brk,
                   dirOutcome, queries, listings, examined, codecVars>>

\* lines 105-123: one pass of the export loop
ExportResource ==
    /\ pc = "export"
    /\ ri <= Len(resources)
    /\ LET resource == resources[ri]
           doc == resource.document_id
       IN  IF Qualifies(resource, Unwrap(calendar_id))
           THEN /\ reads' = Append(reads, doc)
                /\ \E outcome \in {"ok", "err"} :
                      IF outcome = "err"
                      THEN /\ response' = StorageError("get_value")
                           /\ failure' = "fetch"
                           /\ pc' = "done"
                           /\ UNCHANGED <<ri, ical_content>>
                      ELSE /\ ical_content' =
                                 IF store[doc] = "event"
                                 THEN ical_content \o to_ical_string(doc)
                                 ELSE ical_content
                           /\ ri' = ri + 1
                           /\ UNCHANGED <<response, failure, pc>>
           ELSE /\ ri' = ri + 1
                /\ UNCHANGED <<reads, ical_content, response, failure, pc>>
    /\ UNCHANGED <<inputVars, hashed_secret, calendar_id, account_id, pi, di, brk,
                   dirOutcome, queries, listings, examined, codecVars>>

\* a finish that leaves a document without events unclosed
Finish_unclosed_when_empty ==
    /\ pc = "export"
    /\ ri > Len(resources)
    /\ ical_content' = IF ical_content = Header THEN ical_content
                       ELSE ical_content \o Footer
    /\ response' = OkResponse(ical_content')
    /\ pc' = "done"
    /\ UNCHANGED <<inputVars, hashed_secret, calendar_id, account_id, pi, di, brk,
                   ri, dirOutcome, failure, queries, listings, reads, examined,
                   codecVars>>

\* lines 125-133: close the document and answer 200
Finish ==
    /\ pc = "export"
    /\ ri > Len(resources)
    /\ ical_content' = ical_content \o Footer
    /\ response' = OkResponse(ical_content')
    /\ pc' = "done"
    /\ UNCHANGED <<inputVars, hashed_secret, calendar_id, account_id, pi, di, brk,
                   ri, dirOutcome, failure, queries, listings, reads, examined,
                   codecVars>>

(***************************************************************************)
(* Initial states.                                                         *)
(***************************************************************************)
InitHandler ==
    /\ pc = "start"
    /\ hashed_secret = <<>>
    /\ calendar_id = None
    /\ account_id = None
    /\ pi = 0
    /\ di = 0
    /\ brk = FALSE
    /\ ri = 0
    /\ ical_content = <<>>
    /\ response = NoResponse
    /\ dirOutcome = "none"
    /\ failure = "none"
    /\ queries = 0
    /\ listings = 0
    /\ reads = <<>>
    /\ examined = <<>>

InitCodecIdle ==
    /\ cal = <<>>
    /\ extra = <<>>
    /\ hash = <<>>
    /\ token = <<>>
    /\ decoded = None
    /\ parsed = None

Init ==
    /\ impl \in {"compiled", "commented"}
    /\ principals = <<>>
    /\ secret = ""
    /\ resources = <<>>
    /\ store = <<>>
    /\ InitHandler
    /\ InitCodecIdle

\* every directory within the bounds, either secret, a listing of one event
Next ==
    \/ handle_calendar_share_ical(0..MaxPrincipals, 0..MaxEntries, MaxEntries, Entries)
    \/ ReturnNotFound
    \/ BeginScan
    \/ ScanEntry
    \/ EndPrincipal
    \/ Resolve
    \/ FetchDavResources(1..1, <<LeafEvent12>>)
    \/ ExportResource
    \/ Finish

\* every listing within the bounds, two principals holding one entry each
NextExport ==
    \/ handle_calendar_share_ical(2..2, 1..1, 2, <<LinkNoDollar, LinkCal12>>)
    \/ ReturnNotFound
    \/ BeginScan
    \/ ScanEntry
    \/ EndPrincipal
    \/ Resolve
    \/ FetchDavResources(0..MaxResources, ResourceKinds)
    \/ ExportResource
    \/ Finish

Spec == Init /\ [][Next]_vars

SpecExport == Init /\ [][NextExport]_vars

(***************************************************************************)
(* The share-secret codec on its own: a token is written in the format of  *)
(* the share-link entries, then read back by lines 65-71.                  *)
(***************************************************************************)
RECURSIVE Join(_, _)
Join(fields, sep) ==
    IF Len(fields) = 0 THEN <<>>
    ELSE IF Len(fields) = 1 THEN fields[1]
    ELSE fields[1] \o <<sep>> \o Join(Tail(fields), sep)

\* $cal$<calendarId>|<extraFields...>$<verificationHash>
encode(calendarId, extraFields, verificationHash) ==
    CalPrefix \o Join(<<calendarId>> \o extraFields, "|") \o <<"$">> \o verificationHash

CalChars == <<"1", "2", "$", "|">>
ExtraFields == <<<<"r">>, <<>>, <<"e", "$">>, <<"a", "|", "b">>>>
Hashes == <<hash_secret("s1"), hash_secret("s2"), <<>>>>

InitCodec ==
    /\ impl = "commented"
    /\ principals = <<>>
    /\ secret = ""
    /\ resources = <<>>
    /\ store = <<>>
    /\ InitHandler
    /\ InitCodecIdle

CodecEncode ==
    /\ pc = "start"
    /\ \E k \in 0..MaxFieldLen : \E pick \in [1..k -> 1..Len(CalChars)] :
          cal' = [i \in 1..k |-> CalChars[pick[i]]]
    /\ \E n \in 0..MaxExtra : \E pick \in [1..n -> 1..Len(ExtraFields)] :
          extra' = [i \in 1..n |-> ExtraFields[pick[i]]]
    /\ \E h \in 1..Len(Hashes) : hash' = Hashes[h]
    /\ token' = encode(cal', extra', hash')
    /\ pc' = "decode"
    /\ UNCHANGED <<inputVars, hashed_secret, calendar_id, account_id, pi, di, brk,
                   ri, ical_content, response, dirOutcome, failure, queries,
                   listings, reads, examined, decoded, parsed>>

\* lines 65-66
CodecDecode ==
    /\ pc = "decode"
    /\ decoded' = decode(token)
    /\ pc' = IF decoded' = None THEN "codec_done" ELSE "parse"
    /\ UNCHANGED <<inputVars, hashed_secret, calendar_id, account_id, pi, di, brk,
                   ri, ical_content, response, dirOutcome, failure, queries,
                   listings, reads, examined, cal, extra, hash, token, parsed>>

\* lines 69-71
CodecParseMeta ==
    /\ pc = "parse"
    /\ parsed' = parseMeta(Unwrap(decoded)[1])
    /\ pc' = "codec_done"
    /\ UNCHANGED <<inputVars, hashed_secret, calendar_id, account_id, pi, di, brk,
                   ri, ical_content, response, dirOutcome, failure, queries,
                   listings, reads, examined, cal, extra, hash, token, decoded>>

NextCodec ==
    \/ CodecEncode
    \/ CodecDecode
    \/ CodecParseMeta

SpecCodec == InitCodec /\ [][NextCodec]_vars

(***************************************************************************)
(* What the claims speak of, stated on the token text and the listing      *)
(* themselves rather than through the handler's own steps.                 *)
(***************************************************************************)
HasCalPrefix(t) == Len(t) >= 5 /\ \A i \in 1..5 : t[i] = CalPrefix[i]
DollarsAfterPrefix(t) == {i \in 6..Len(t) : t[i] = "$"}
MetaPart(t) == SubSeq(t, 6, Min(DollarsAfterPrefix(t)) - 1)
HashPart(t) == SubSeq(t, Min(DollarsAfterPrefix(t)) + 1, Len(t))
FieldCount(meta) == Cardinality(Positions(meta, "|")) + 1
FirstField(meta) ==
    IF Positions(meta, "|") = {} THEN meta
    ELSE SubSeq(meta, 1, Min(Positions(meta, "|")) - 1)

IsLink(e) == e.kind = "CalendarShareLink"
\* $cal$<meta>$<hash> with at least three meta fields
WellFormed(e) ==
    /\ IsLink(e)
    /\ HasCalPrefix(e.secret)
    /\ DollarsAfterPrefix(e.secret) # {}
    /\ FieldCount(MetaPart(e.secret)) >= 3
\* the text after the last "$" is the digest of the bearer secret
TailVerifies(e, s) ==
    /\ IsLink(e)
    /\ Positions(e.secret, "$") # {}
    /\ LET cut == IF HasCalPrefix(e.secret) /\ DollarsAfterPrefix(e.secret) # {}
                  THEN Min(DollarsAfterPrefix(e.secret))
                  ELSE Min(Positions(e.secret, "$"))
       IN  SubSeq(e.secret, cut + 1, Len(e.secret)) = hash_secret(s)
Matching(e, s) == WellFormed(e) /\ HashPart(e.secret) = hash_secret(s)
CalendarOf(e) == FirstField(MetaPart(e.secret))

\* the (principal, entry) positions of the directory: principals in listing
\* order, each principal's entries in stored order
RECURSIVE OrderFrom(_)
OrderFrom(p) ==
    IF p > Len(principals) THEN <<>>
    ELSE [d \in 1..Len(principals[p].data) |-> <<p, d>>] \o OrderFrom(p + 1)
Order == OrderFrom(1)
EntryAt(x) == principals[x[1]].data[x[2]]
\* the places in Order of the entries that are well formed and verify
MatchPlaces(ord) == {k \in 1..Len(ord) : Matching(EntryAt(ord[k]), secret)}
HasMatch == MatchPlaces(Order) # {}

ScanOver == pc \in {"resolve", "list", "export", "done"} \/ (pc = "scan" /\ pi > Len(principals))

\* the event bodies the listing should give for calendar c, in listing order
RECURSIVE ExpectedBodies(_, _)
ExpectedBodies(i, c) ==
    IF i > Len(resources) THEN <<>>
    ELSE LET r == resources[i]
             body == IF /\ r.is_container = FALSE
                        /\ to_string(r.collection_id) = c
                        /\ store[r.document_id] = "event"
                     THEN <<"BEGIN:VEVENT", "UID:" \o ToString(r.document_id), "END:VEVENT">>
                     ELSE <<>>
         IN  body \o ExpectedBodies(i + 1, c)

EventBodies(doc) == Cardinality({i \in 1..Len(doc) : doc[i] = "BEGIN:VEVENT"})
LeavesOf(c) ==
    {i \in 1..Len(resources) :
        ~resources[i].is_container /\ to_string(resources[i].collection_id) = c}
SkippedOf(c) == {i \in LeavesOf(c) : store[resources[i].document_id] # "event"}
Exported == impl = "commented" /\ pc = "done" /\ listings = 1 /\ calendar_id # None

(***************************************************************************)
(* C1.  If a principal holds a well-formed share-link entry whose hash     *)
(* verifies against the bearer secret, the handler resolves: the account   *)
(* id is that principal's id, the calendar id is the first meta field, and *)
(* the answer is not NotFound.  Stated of the handler as built; the        *)
(* compiled body (lines 31-57) never resolves.                             *)
(***************************************************************************)
C1_ResolvesHolder ==
    (pc = "done" /\ HasMatch) =>
        /\ response.kind # "Resource.NotFound"
        /\ \E k \in MatchPlaces(Order) :
              /\ account_id = Some(principals[Order[k][1]].id)
              /\ calendar_id = Some(CalendarOf(EntryAt(Order[k])))

(***************************************************************************)
(* C2.  When no entry verifies against the bearer secret, be it that no    *)
(* principal holds a share link or that the links held carry another hash, *)
(* the handler returns Resource NotFound with the detail "Calendar share   *)
(* link not found" and has listed and read nothing: the two causes give    *)
(* the same observable result.                                             *)
(***************************************************************************)
NoneVerifies == \A k \in 1..Len(Order) : ~TailVerifies(EntryAt(Order[k]), secret)
C2_SameNotFound ==
    (pc = "done" /\ NoneVerifies) =>
        /\ response = [status |-> "Err", kind |-> "Resource.NotFound",
                       details |-> "Calendar share link not found",
                       headers |-> <<>>, body |-> <<>>]
        /\ listings = 0
        /\ reads = <<>>
C2_Witness ==
    /\ pc = "done"
    /\ impl = "commented"
    /\ NoneVerifies
    /\ \E k \in 1..Len(Order) : WellFormed(EntryAt(Order[k]))
    /\ response.status = "Err"

C7_FailurePropagates ==
    (pc = "done" /\ (dirOutcome = "err" \/ failure # "none")) =>
        /\ response.status = "Err"
        /\ response.kind = "StorageError"

(***************************************************************************)
(* C8.  Codec round trip: for a calendar id without "$" and "|" and two or *)
(* more extra fields without "$", decoding the token                       *)
(* $cal$<calId>|<extra...>$<hash> gives the meta text and the hash, cut at *)
(* the first "$" after the prefix, and parsing the meta gives the calendar *)
(* id verbatim.                                                            *)
(***************************************************************************)
ValidToken ==
    /\ \A i \in 1..Len(cal) : cal[i] \notin {"$", "|"}
    /\ Len(extra) >= 2
    /\ \A k \in 1..Len(extra) : Positions(extra[k], "$") = {}
C10_CompiledAlwaysNotFound ==
    impl = "compiled" =>
        /\ response.status # "Ok"
        /\ queries <= 1
        /\ listings = 0
        /\ reads = <<>>
        /\ examined = <<>>
        /\ calendar_id = None
        /\ account_id = None
        /\ pc = "done" =>
              /\ queries = 1
              /\ response.kind = "Resource.NotFound"
              /\ response.details = "Calendar share link not found"
C10_Witness ==
    /\ impl = "compiled"
    /\ pc = "done"
    /\ dirOutcome = "err"
    /\ HasMatch
    /\ response.kind = "Resource.NotFound"

====
